---- MODULE Spec2Model ----
(***************************************************************************)
(* Board Panel strengths-analysis service (src/api.py, src/crew.py,        *)
(* src/models.py): the in-memory job store analysis_results, the           *)
(* background task run_analysis with its rate-limit retry loop, the        *)
(* output extractor extract_strengths_from_output with its fallback, and   *)
(* the status / results queries.                                           *)
(***************************************************************************)
EXTENDS Integers, Sequences, FiniteSets, TLC

(* ------------------------------ bounds --------------------------------- *)

\* number of analyses that may be submitted
MaxJobs == 2
\* largest number of task outputs a crew result carries (the crew has 5 tasks)
MaxTasks == 6
\* longest strengths list an upstream value carries (the schema allows 5)
MaxItems == 6

Jobs == 1..MaxJobs
\* path parameters of the queries; 0 is an id no submission ever returned
QueryIds == 0..MaxJobs

(* --------------------------- Python values ----------------------------- *)
\* Every value is a record tagged with its Python type in field t.

PyNone == [t |-> "NoneType"]
PyInt(n) == [t |-> "int", v |-> n]
PyBool(b) == [t |-> "bool", v |-> b]
\* a str whose inner structure is irrelevant: a sentence
PyStr(s) == [t |-> "str", v |-> s]
PyList(items) == [t |-> "list", items |-> items]
\* a dict: m is a function from its keys to their values
PyDict(m) == [t |-> "dict", m |-> m]
\* a str as a sequence of lexical tokens (see the text section)
PyText(toks) == [t |-> "text", toks |-> toks]
\* models.AgentStrengthOutput, validated on construction: 3..5 str items
AgentStrengthOutput(name, strengths) ==
    [t |-> "AgentStrengthOutput", agent_name |-> name, strengths |-> strengths]
\* crewai TaskOutput: the typed payload (or None) and the raw completion text
TaskOutput(pydantic, raw) == [t |-> "TaskOutput", pydantic |-> pydantic, raw |-> raw]
\* crewai CrewOutput: what kickoff returns
CrewOutput(tasks) == [t |-> "CrewOutput", tasks_output |-> tasks]
\* some other truthy object without a tasks_output attribute
PlainObject == [t |-> "object"]

EmptyDict == PyDict(<<>>)
HasKey(d, k) == d.t = "dict" /\ k \in DOMAIN d.m

RECURSIVE SumLen(_)
\* number of characters of a token sequence
SumLen(toks) ==
    IF toks = <<>> THEN 0
    ELSE (IF Head(toks).k = "q" THEN Len(Head(toks).s) + 2 ELSE Len(Head(toks).s))
         + SumLen(Tail(toks))

\* Python's len(); HasLen says whether len() is defined for the value
HasLen(v) == v.t \in {"list", "str", "text", "dict"}
PyLen(v) ==
    CASE v.t = "list" -> Len(v.items)
      [] v.t = "str" -> Len(v.v)
      [] v.t = "text" -> SumLen(v.toks)
      [] v.t = "dict" -> Cardinality(DOMAIN v.m)
      [] OTHER -> 0

\* Python's truth value
Truthy(v) ==
    CASE v.t = "NoneType" -> FALSE
      [] v.t = "int" -> v.v # 0
      [] v.t = "bool" -> v.v
      [] HasLen(v) -> PyLen(v) > 0
      [] OTHER -> TRUE

(* ------------------------ exception messages --------------------------- *)
\* str(e): a sequence of characters

NoResultMsg == <<"N","o"," ","r","e","s","u","l","t"," ","f","r","o","m"," ","c","r","e","w"," ","e","x","e","c","u","t","i","o","n">>

\* TypeError of len() on a value without a length
LenErrorMsg(v) ==
    <<"o","b","j","e","c","t"," ","o","f"," ","t","y","p","e"," ","'">>
    \o <<v.t>> \o <<"'"," ","h","a","s"," ","n","o"," ","l","e","n","(",")">>

LowerChar(c) ==
    CASE c = "A" -> "a" [] c = "B" -> "b" [] c = "C" -> "c" [] c = "D" -> "d"
      [] c = "E" -> "e" [] c = "F" -> "f" [] c = "G" -> "g" [] c = "H" -> "h"
      [] c = "I" -> "i" [] c = "J" -> "j" [] c = "K" -> "k" [] c = "L" -> "l"
      [] c = "M" -> "m" [] c = "N" -> "n" [] c = "O" -> "o" [] c = "P" -> "p"
      [] c = "Q" -> "q" [] c = "R" -> "r" [] c = "S" -> "s" [] c = "T" -> "t"
      [] c = "U" -> "u" [] c = "V" -> "v" [] c = "W" -> "w" [] c = "X" -> "x"
      [] c = "Y" -> "y" [] c = "Z" -> "z" [] OTHER -> c

\* str.lower()
Lower(msg) == [i \in 1..Len(msg) |-> LowerChar(msg[i])]

\* the Python operator "sub in msg" on strings
Contains(msg, sub) ==
    \E i \in 1..(Len(msg) - Len(sub) + 1) : SubSeq(msg, i, i + Len(sub) - 1) = sub

\* api.py line 185: "rate_limit" in error_msg.lower() or "429" in error_msg
IsRateLimit(error_msg) ==
    Contains(Lower(error_msg), <<"r","a","t","e","_","l","i","m","i","t">>)
    \/ Contains(error_msg, <<"4","2","9">>)

(* ------------------------------- text ---------------------------------- *)
\* A text is a sequence of tokens [k, s]: k = "p" one of the characters
\* { } [ ] : ,   k = "q" a double-quoted run with content s (no quote, brace
\* or bracket inside)   k = "s" white space   k = "w" any other run of
\* characters free of quotes, braces and brackets.

P(c) == [k |-> "p", s |-> c]
Q(s) == [k |-> "q", s |-> s]
W(s) == [k |-> "w", s |-> s]
Sp(s) == [k |-> "s", s |-> s]

Min(S) == CHOOSE x \in S : \A y \in S : x <= y
MinOr0(S) == IF S = {} THEN 0 ELSE Min(S)

RECURSIVE ReprKeys(_)
\* the keys of a dict in repr() form: single-quoted, so never a "q" token
ReprKeys(ks) ==
    IF ks = {} THEN <<>>
    ELSE <<W("'" \o (CHOOSE x \in ks : TRUE) \o "'"), P(":"), W("..."), P(",")>>
         \o ReprKeys(ks \ {CHOOSE x \in ks : TRUE})

\* str() of a value other than a TaskOutput
StrOf(v) ==
    CASE v.t = "text" -> v.toks
      [] v.t = "str" -> <<W(v.v)>>
      [] v.t = "dict" -> <<P("{")>> \o ReprKeys(DOMAIN v.m) \o <<P("}")>>
      [] v.t = "list" -> <<P("["), W("..."), P("]")>>
      [] OTHER -> <<W(v.t)>>

\* str(task_output) of api.py line 84, as tokens; crewai TaskOutput.__str__
\* gives the payload when it is truthy, else the raw text
Str(v) ==
    IF v.t = "TaskOutput"
    THEN (IF Truthy(v.pydantic) THEN StrOf(v.pydantic) ELSE v.raw.toks)
    ELSE StrOf(v)

IsBrace(tk) == tk.k = "p" /\ tk.s \in {"{", "}"}
IsP(toks, i, c) == i \in 1..Len(toks) /\ toks[i] = P(c)

\* output_str.strip().startswith('{')
StartsWithBrace(toks) ==
    \E i \in 1..Len(toks) : toks[i] = P("{") /\ \A x \in 1..(i - 1) : toks[x].k = "s"

\* first "]" at or after position k, 0 when there is none
FirstClose(toks, k) == MinOr0({l \in k..Len(toks) : toks[l] = P("]")})

\* first brace after position i, Len + 1 when there is none
NextBrace(toks, i) ==
    Min({b \in (i + 1)..(Len(toks) + 1) : b = Len(toks) + 1 \/ IsBrace(toks[b])})

\* [^{}]*?\}  after the "]" of position l: the next brace must close
ClosingAfter(toks, l, b) == IF l # 0 /\ IsP(toks, b, "}") THEN b ELSE 0

\* end of the tail  \[[^\]]*?\][^{}]*?\}  started at the "[" of position k
\* (0: the tail does not match there)
TailEnd(toks, k) ==
    ClosingAfter(toks, FirstClose(toks, k + 1), NextBrace(toks, FirstClose(toks, k + 1)))

\* the "[" positions k at which the pattern of api.py line 88, started at
\* the "{" of position i and passing the "strengths" of position j, matches:
\* no brace may lie between i and k
Opens4(toks, i, j) ==
    {k \in (j + 1)..(NextBrace(toks, i) - 1) : toks[k] = P("[") /\ TailEnd(toks, k) # 0}

\* the "strengths" positions j of a match started at i
Keys4(toks, i) ==
    {j \in (i + 1)..(NextBrace(toks, i) - 1) :
        toks[j] = Q("strengths") /\ Opens4(toks, i, j) # {}}

\* the match started at i: lazy quantifiers take the first key, then the
\* first "[" after it
MatchThrough(toks, i, j) == SubSeq(toks, i, TailEnd(toks, Min(Opens4(toks, i, j))))
MatchFrom(toks, i) == MatchThrough(toks, i, Min(Keys4(toks, i)))
LeftmostMatch(toks, I) == IF I = {} THEN <<>> ELSE MatchFrom(toks, Min(I))

\* re.search of line 88: leftmost start; <<>> when there is no match
JsonMatch(toks) ==
    LeftmostMatch(toks, {i \in 1..Len(toks) : toks[i] = P("{") /\ Keys4(toks, i) # {}})

(* ------------------------------- JSON ---------------------------------- *)

BadJson == [ok |-> FALSE, val |-> PyNone, pos |-> 0]
GoodJson(v, p) == [ok |-> TRUE, val |-> v, pos |-> p]

\* first position at or after i that holds no white space
SkipWs(toks, i) ==
    Min({p \in i..(Len(toks) + 1) : p = Len(toks) + 1 \/ toks[p].k # "s"})

\* a bare word as a JSON literal
IsLiteral(s) == s \in {"null", "true", "false", "0", "1", "2", "3", "4", "5", "6", "7"}
Literal(s) ==
    CASE s = "null" -> PyNone
      [] s = "true" -> PyBool(TRUE)
      [] s = "false" -> PyBool(FALSE)
      [] s = "0" -> PyInt(0) [] s = "1" -> PyInt(1) [] s = "2" -> PyInt(2)
      [] s = "3" -> PyInt(3) [] s = "4" -> PyInt(4) [] s = "5" -> PyInt(5)
      [] s = "6" -> PyInt(6) [] OTHER -> PyInt(7)

RECURSIVE ValueAt(_, _)
RECURSIVE ParseElements(_, _, _)
RECURSIVE ElementsAfter(_, _, _)
RECURSIVE ElementsNext(_, _, _)
RECURSIVE ParseMembers(_, _, _)
RECURSIVE MemberColon(_, _, _, _)
RECURSIVE MemberAfter(_, _, _, _)
RECURSIVE MemberNext(_, _, _)

\* a JSON value starting at or after position i, white space skipped
ParseValue(toks, i) == ValueAt(toks, SkipWs(toks, i))

\* after an element r: "," and more elements, or "]"
ElementsNext(toks, acc, q) ==
    IF IsP(toks, q, ",") THEN ParseElements(toks, q + 1, acc)
    ELSE IF IsP(toks, q, "]") THEN GoodJson(PyList(acc), q + 1)
    ELSE BadJson
ElementsAfter(toks, acc, r) ==
    IF r.ok THEN ElementsNext(toks, Append(acc, r.val), SkipWs(toks, r.pos)) ELSE BadJson
\* the elements of an array from position i on
ParseElements(toks, i, acc) == ElementsAfter(toks, acc, ValueAt(toks, SkipWs(toks, i)))

\* after a member: "," and more members, or "}"; a repeated key keeps its
\* last value
MemberNext(toks, m, q) ==
    IF IsP(toks, q, ",") THEN ParseMembers(toks, q + 1, m)
    ELSE IF IsP(toks, q, "}") THEN GoodJson(PyDict(m), q + 1)
    ELSE BadJson
MemberAfter(toks, acc, key, r) ==
    IF r.ok THEN MemberNext(toks, (key :> r.val) @@ acc, SkipWs(toks, r.pos)) ELSE BadJson
MemberColon(toks, acc, p, c) ==
    IF IsP(toks, c, ":")
    THEN MemberAfter(toks, acc, toks[p].s, ValueAt(toks, SkipWs(toks, c + 1)))
    ELSE BadJson
\* the members of an object from position p on: a quoted key, ":", a value
ParseMembers(toks, p, acc) ==
    IF SkipWs(toks, p) <= Len(toks) /\ toks[SkipWs(toks, p)].k = "q"
    THEN MemberColon(toks, acc, SkipWs(toks, p), SkipWs(toks, SkipWs(toks, p) + 1))
    ELSE BadJson

\* the value whose first token is at position p
ValueAt(toks, p) ==
    IF p > Len(toks) THEN BadJson
    ELSE CASE toks[p].k = "q" -> GoodJson(PyStr(toks[p].s), p + 1)
           [] toks[p].k = "w" ->
                  IF IsLiteral(toks[p].s) THEN GoodJson(Literal(toks[p].s), p + 1)
                  ELSE BadJson
           [] toks[p] = P("[") ->
                  IF IsP(toks, SkipWs(toks, p + 1), "]")
                  THEN GoodJson(PyList(<<>>), SkipWs(toks, p + 1) + 1)
                  ELSE ParseElements(toks, p + 1, <<>>)
           [] toks[p] = P("{") ->
                  IF IsP(toks, SkipWs(toks, p + 1), "}")
                  THEN GoodJson(EmptyDict, SkipWs(toks, p + 1) + 1)
                  ELSE ParseMembers(toks, p + 1, <<>>)
           [] OTHER -> BadJson

\* nothing but white space may follow the value
WholeText(toks, r) == IF r.ok /\ SkipWs(toks, r.pos) = Len(toks) + 1 THEN r ELSE BadJson

\* json.loads: ok = FALSE stands for JSONDecodeError
JsonLoads(toks) == WholeText(toks, ParseValue(toks, 1))

\* every item of a list is a str
AllStr(l) == \A i \in 1..Len(l.items) : l.items[i].t = "str"

\* models.py lines 10-19: agent_name a str, strengths a list of 3..5 str
ValidModel(r) ==
    IF /\ r.ok /\ r.val.t = "dict"
       /\ HasKey(r.val, "agent_name") /\ r.val.m["agent_name"].t = "str"
       /\ HasKey(r.val, "strengths") /\ r.val.m["strengths"].t = "list"
       /\ AllStr(r.val.m["strengths"])
       /\ Len(r.val.m["strengths"].items) >= 3
       /\ Len(r.val.m["strengths"].items) <= 5
    THEN GoodJson(AgentStrengthOutput(r.val.m["agent_name"].v, r.val.m["strengths"]), 0)
    ELSE BadJson

\* AgentStrengthOutput.model_validate_json; ok = FALSE stands for
\* ValidationError
ModelValidateJson(toks) == ValidModel(JsonLoads(toks))

(* ------------------------- regex extraction ---------------------------- *)

\* \s*:\s*\[ after the key at position j: position of the "[", 0 when the
\* pattern does not match there
OpenAt(toks, o) == IF IsP(toks, o, "[") THEN o ELSE 0
AfterColon(toks, c) == IF IsP(toks, c, ":") THEN OpenAt(toks, SkipWs(toks, c + 1)) ELSE 0
Open6(toks, j) == AfterColon(toks, SkipWs(toks, j + 1))

\* positions j of a "strengths" key at which the pattern of api.py line 106
\* matches: \s*:\s*\[ follows and a "]" comes later
Heads6(toks) ==
    {j \in 1..Len(toks) :
        /\ toks[j] = Q("strengths")
        /\ Open6(toks, j) # 0
        /\ FirstClose(toks, Open6(toks, j) + 1) # 0}

GroupFrom(toks, o) == SubSeq(toks, o + 1, FirstClose(toks, o + 1) - 1)

\* group(1) of the leftmost match of line 106
StrengthsText(toks) == GroupFrom(toks, Open6(toks, Min(Heads6(toks))))

RECURSIVE Concat(_)
\* the characters of a run of tokens, as one string
Concat(toks) ==
    IF toks = <<>> THEN ""
    ELSE (IF Head(toks).k = "q" THEN "\"" \o Head(toks).s \o "\"" ELSE Head(toks).s)
         \o Concat(Tail(toks))

\* position of the next quoted token after i, 0 when there is none
NextQ(toks, i) == MinOr0({x \in (i + 1)..Len(toks) : toks[x].k = "q"})

RECURSIVE FindAll(_, _, _)
RECURSIVE FindBetween(_, _, _)

\* the scan stands on the closing quote of token i; n is the next quoted
\* token: the candidate is the text between the two
FindBetween(toks, i, n) ==
    IF n = 0 THEN <<>>
    ELSE IF SumLen(SubSeq(toks, i + 1, n - 1)) >= 15
    THEN <<PyStr(Concat(SubSeq(toks, i + 1, n - 1)))>> \o FindAll(toks, n, FALSE)
    ELSE FindAll(toks, n, TRUE)

\* re.findall(r'"([^"]{15,})"', text) of line 109. The scan stands on a quote
\* character: the opening quote of token i (open) or its closing quote.
\* A candidate is the run up to the next quote character, which is the
\* content of token i, or the text between token i and the next quoted token.
FindAll(toks, i, open) ==
    IF i = 0 THEN <<>>
    ELSE IF open
    THEN (IF Len(toks[i].s) >= 15
          THEN <<PyStr(toks[i].s)>> \o FindAll(toks, NextQ(toks, i), TRUE)
          ELSE FindAll(toks, i, FALSE))
    ELSE FindBetween(toks, i, NextQ(toks, i))

Take(seq, n) == SubSeq(seq, 1, IF Len(seq) < n THEN Len(seq) ELSE n)

(* ------------------------------ fallback ------------------------------- *)

Sentences(a, b, c) == PyList(<<PyStr(a), PyStr(b), PyStr(c)>>)

GenericFallback ==
    Sentences("Analysis completed successfully.",
              "Detailed insights available upon review.",
              "Please contact support for additional information.")

\* a lookup that knows the generic list only
get_fallback_generic(task_index) == GenericFallback

\* api.py lines 122-156
get_fallback_strengths(task_index) ==
    CASE task_index = 0 ->
            Sentences("The company has established multiple marketing channels for user acquisition.",
                      "Customer acquisition metrics indicate efficient marketing spend.",
                      "Retention strategy demonstrates commitment to user engagement and growth.")
      [] task_index = 1 ->
            Sentences("The technology stack is built on modern, scalable frameworks.",
                      "Product features effectively address core user needs.",
                      "Technical architecture supports future growth and expansion.")
      [] task_index = 2 ->
            Sentences("Team structure aligns with current business priorities.",
                      "Leadership roles are clearly defined with appropriate expertise.",
                      "Hiring plan strategically addresses critical gaps in team capabilities.")
      [] task_index = 3 ->
            Sentences("The company has established clear market positioning.",
                      "Unique value proposition provides differentiation from competitors.",
                      "Pricing strategy aligns with market expectations and value delivery.")
      [] task_index = 4 ->
            Sentences("Monthly burn rate is managed within acceptable range for the company stage.",
                      "Current revenue demonstrates market traction and validation.",
                      "Funding status provides adequate runway for growth initiatives.")
      [] OTHER -> GenericFallback

(* ------------------------------ extractor ------------------------------ *)
\* A strategy answers [r |-> "hit", val |-> v] (it returns v), "miss" (the
\* next strategy is tried) or "raise" (an exception leaves the strategy).

Hit(v) == [r |-> "hit", val |-> v]
Miss == [r |-> "miss", val |-> PyNone]
Raise == [r |-> "raise", val |-> PyNone]

\* strategy a, and strategy b only when a neither returns nor raises
OrElse(a, b) == IF a.r # "miss" THEN a ELSE b

\* api.py lines 58-61
Strategy1(task_output) ==
    IF task_output.t = "AgentStrengthOutput" THEN Hit(task_output.strengths) ELSE Miss

\* api.py lines 63-71
Strategy2(task_output) ==
    IF task_output.t # "TaskOutput" THEN Miss
    ELSE IF task_output.pydantic.t = "AgentStrengthOutput"
    THEN Hit(task_output.pydantic.strengths)
    ELSE IF HasKey(task_output.pydantic, "strengths")
    THEN Hit(task_output.pydantic.m["strengths"])
    ELSE Miss

\* a strategy 3 that reads the key strengths of the mapping only
Strategy3DirectOnly(task_output) ==
    IF task_output.t # "dict" THEN Miss
    ELSE IF HasKey(task_output, "strengths") THEN Hit(task_output.m["strengths"])
    ELSE Miss

\* api.py lines 73-81
Strategy3(task_output) ==
    IF task_output.t # "dict" THEN Miss
    ELSE IF HasKey(task_output, "strengths") THEN Hit(task_output.m["strengths"])
    ELSE IF /\ HasKey(task_output, "pydantic")
            /\ HasKey(task_output.m["pydantic"], "strengths")
    THEN Hit(task_output.m["pydantic"].m["strengths"])
    ELSE Miss

\* api.py lines 91-94; json.loads runs in no try of its own
Loaded4(data) ==
    IF ~data.ok THEN Raise
    ELSE IF HasKey(data.val, "strengths") THEN Hit(data.val.m["strengths"])
    ELSE Miss

\* api.py lines 89-90
Matched4(json_match) == IF json_match = <<>> THEN Miss ELSE Loaded4(JsonLoads(json_match))

\* api.py lines 84-94
Strategy4(output_str) ==
    IF StartsWithBrace(output_str) THEN Matched4(JsonMatch(output_str)) ELSE Miss

Parsed5(parsed) == IF parsed.ok THEN Hit(parsed.val.strengths) ELSE Miss

\* api.py lines 96-102: the only strategy with a try of its own
Strategy5(output_str) == Parsed5(ModelValidateJson(output_str))

\* api.py lines 110-112
Items6(strength_items) ==
    IF Len(strength_items) >= 3 THEN Hit(PyList(Take(strength_items, 5))) ELSE Miss

\* api.py lines 108-109
Group6(strengths_text) == Items6(FindAll(strengths_text, NextQ(strengths_text, 0), TRUE))

\* api.py lines 104-112
Strategy6(output_str) ==
    IF Heads6(output_str) = {} THEN Miss ELSE Group6(StrengthsText(output_str))

\* strategies 4 to 6 on the rendered text, in the order of the code; an
\* exception leaves the whole try of line 57 for the handler of line 117
TextStrategies(output_str) ==
    OrElse(Strategy4(output_str), OrElse(Strategy5(output_str), Strategy6(output_str)))

\* the strategy outcome before the fallback is applied
Strategies(task_output) ==
    OrElse(Strategy1(task_output),
           OrElse(Strategy2(task_output),
                  OrElse(Strategy3(task_output), TextStrategies(Str(task_output)))))

\* api.py lines 114-119: no strategy returned, or one raised
OrFallback(s, task_index) == IF s.r = "hit" THEN s.val ELSE get_fallback_strengths(task_index)

\* api.py lines 50-119
extract_strengths_from_output(task_output, task_index) ==
    OrFallback(Strategies(task_output), task_index)

(* ----------------------- upstream behaviours --------------------------- *)
\* What the completion service can answer: the values kickoff may return and
\* the texts of the exceptions it may raise.

Digit(i) ==
    CASE i = 1 -> "1" [] i = 2 -> "2" [] i = 3 -> "3" [] i = 4 -> "4" [] i = 5 -> "5"
      [] i = 6 -> "6" [] i = 7 -> "7" [] i = 8 -> "8" [] OTHER -> "9"

\* a sentence of at least 15 characters, and one of fewer
LongItem(i) == "strength statement number " \o Digit(i)
ShortItem(i) == "short " \o Digit(i)

\* a Python list of n sentences
StrList(n) == PyList([i \in 1..n |-> PyStr(LongItem(i))])
ShortList(n) == PyList([i \in 1..n |-> PyStr(ShortItem(i))])

RECURSIVE Joined(_, _)
\* the tokens of seq with sep between consecutive ones
Joined(seq, sep) ==
    IF Len(seq) <= 1 THEN seq ELSE <<Head(seq)>> \o sep \o Joined(Tail(seq), sep)

\* the text of a JSON array of n quoted sentences
JsonArray(n) == <<P("[")>> \o Joined([i \in 1..n |-> Q(LongItem(i))], <<P(",")>>) \o <<P("]")>>
ShortArray(n) == <<P("[")>> \o Joined([i \in 1..n |-> Q(ShortItem(i))], <<P(",")>>) \o <<P("]")>>
\* the same with a line break and indentation after every comma
IndentedArray(n) ==
    <<P("[")>> \o Joined([i \in 1..n |-> Q(ShortItem(i))], <<P(","), Sp("\n               ")>>)
    \o <<P("]")>>

KeyName == <<Q("agent_name"), P(":"), Q("Marketing"), P(",")>>
KeyStrengths == <<Q("strengths"), P(":")>>

\* {"agent_name":"Marketing","strengths":[...]}
JsonObject(array) == <<P("{")>> \o KeyName \o KeyStrengths \o array \o <<P("}")>>
\* the same inside log noise
Embedded(array) == <<W("Final Answer"), Sp(" ")>> \o JsonObject(array) \o <<Sp(" "), W("done")>>
\* with a nested object before the strengths key
Nested(array) ==
    <<P("{")>> \o KeyName \o <<Q("meta"), P(":"), P("{"), Q("a"), P(":"), W("1"), P("}"), P(",")>>
    \o KeyStrengths \o array \o <<P("}")>>
\* an array with a bare word in it: not JSON
Broken(n) ==
    <<P("{")>> \o KeyStrengths \o <<P("[")>>
    \o Joined([i \in 1..n |-> Q(LongItem(i))], <<P(",")>>) \o <<P(","), W("oops"), P("]"), P("}")>>
\* no object at all, only the key and its array
Bare(array) == <<W("Strengths found"), Sp(" ")>> \o KeyStrengths \o <<Sp(" ")>> \o array

\* free texts whose shape does not depend on a list length
FixedTexts ==
    << <<W("I could not analyse this startup")>>,
       <<>>,
       \* {"strengths": 3, "notes": ["a"]}
       <<P("{"), Q("strengths"), P(":"), Sp(" "), W("3"), P(","), Q("notes"), P(":"),
         P("["), Q("a"), P("]"), P("}")>>,
       \* {"strengths": "abcdef", "x": [1]}
       <<P("{"), Q("strengths"), P(":"), Q("abcdef"), P(","), Q("x"), P(":"),
         P("["), W("1"), P("]"), P("}")>>,
       \* {"strengths": null, "x": []}
       <<P("{"), Q("strengths"), P(":"), W("null"), P(","), Q("x"), P(":"),
         P("["), P("]"), P("}")>>,
       \* {"a": "strengths", "b": [1]}
       <<P("{"), Q("a"), P(":"), Q("strengths"), P(","), Q("b"), P(":"),
         P("["), W("1"), P("]"), P("}")>>,
       \* {"strengths": [{"a": 1}]}
       <<P("{"), Q("strengths"), P(":"), P("["), P("{"), Q("a"), P(":"), W("1"), P("}"),
         P("]"), P("}")>> >>

\* the texts built around a list of n items
TextsOf(n) ==
    << JsonObject(JsonArray(n)), JsonObject(ShortArray(n)), Embedded(JsonArray(n)),
       Embedded(ShortArray(n)), Nested(JsonArray(n)), Broken(n), Bare(JsonArray(n)),
       Bare(IndentedArray(n)) >>

RECURSIVE Flatten(_)
Flatten(seqs) == IF seqs = <<>> THEN <<>> ELSE Head(seqs) \o Flatten(Tail(seqs))

RawTexts == FixedTexts \o Flatten([n \in 1..(MaxItems + 1) |-> TextsOf(n - 1)])

NoText == PyText(<<>>)
Validated == {3, 4, 5}

\* task outputs that carry a value (strategies 1 to 3)
TypedOf(n) ==
    (IF n \in Validated
     THEN << AgentStrengthOutput("Marketing", StrList(n)),
             TaskOutput(AgentStrengthOutput("Tech", StrList(n)), NoText) >>
     ELSE <<>>)
    \o << TaskOutput(PyDict([strengths |-> StrList(n)]), NoText),
          PyDict([strengths |-> ShortList(n)]),
          PyDict([pydantic |-> PyDict([strengths |-> StrList(n)])]) >>

FixedTyped ==
    << TaskOutput(PyDict([strengths |-> PyInt(3)]), NoText),
       PyDict([strengths |-> PyNone]),
       PyDict([strengths |-> PyStr("abcdef")]),
       PyDict([agent_name |-> PyStr("Marketing")]),
       TaskOutput(PyDict([agent_name |-> PyStr("Marketing")]), NoText),
       PyNone >>

\* a raw text as a task output: alternately a plain str and a TaskOutput
\* whose payload is None
AsOutputs(texts) ==
    [i \in 1..Len(texts) |->
        IF i % 2 = 0 THEN PyText(texts[i]) ELSE TaskOutput(PyNone, PyText(texts[i]))]

\* every task output considered, in a fixed order
TaskOutputs ==
    FixedTyped \o Flatten([n \in 1..(MaxItems + 1) |-> TypedOf(n - 1)]) \o AsOutputs(RawTexts)

\* the crew result of n task outputs taken from outs at offset k on
CrewResultAt(outs, n, k) ==
    CrewOutput([i \in 1..n |-> outs[((k + i - 2) % Len(outs)) + 1]])

\* the five typed outputs of a run in which every task obeyed its schema
GoodResult ==
    CrewOutput([i \in 1..5 |->
        TaskOutput(AgentStrengthOutput("Agent", StrList(3 + (i % 3))), NoText)])

\* a run whose second task answered {"strengths": 3, "notes": ["a"]}
OddResult ==
    CrewOutput(<<TaskOutput(AgentStrengthOutput("Agent", StrList(3)), NoText),
                 TaskOutput(PyNone, PyText(FixedTexts[3]))>>)

\* every value kickoff may return, in a fixed order; a job's crew_result is
\* held as a position in this sequence (0: not assigned, None)
AnswersOf(outs) ==
    <<GoodResult, OddResult, PyNone, PyStr(""), PlainObject>>
    \o [x \in 1..((MaxTasks + 1) * Len(outs)) |->
            CrewResultAt(outs, (x - 1) \div Len(outs), ((x - 1) % Len(outs)) + 1)]
Answers == AnswersOf(TaskOutputs)

CrewValue(r) == IF r = 0 THEN PyNone ELSE Answers[r]

\* exception texts: three that line 185 takes for a rate limit, four it does not
RateLimitTexts ==
    { <<"r","a","t","e","_","l","i","m","i","t">>,
      <<"R","a","t","e","_","L","i","m","i","t">>,
      <<"E","4","2","9">> }
OtherTexts ==
    { <<"r","a","t","e"," ","l","i","m","i","t">>,
      <<"E","4","2"," ","9">>,
      <<"b","o","o","m">>,
      \* crew.py line 30
      <<"G","R","O","Q","_","A","P","I","_","K","E","Y"," ","n","o","t"," ","f","o","u","n","d">> }

\* the service in full, and a small range of behaviours for runs of several
\* jobs: the answers (positions in Answers) and the exception texts
ServiceResults(svc) == IF svc = "full" THEN 1..Len(Answers) ELSE {1, 2}
\* the task at which a failing attempt stops (-1: before the first task)
FailingStages(svc) == IF svc = "staged" THEN -1..4 ELSE {0}
ServiceErrors(svc) ==
    IF svc = "full" THEN RateLimitTexts \cup OtherTexts
    ELSE {<<"E","4","2","9">>, <<"b","o","o","m">>}

(* ------------------------------- state --------------------------------- *)

VARIABLES
    analysis_results,   \* api.py line 37: the job store, id -> record
    pc,                 \* per job: the line its background task stands at
    attempt,            \* per job: loop variable of the retry loop
    crew_result,        \* per job: local of run_analysis (a position in Answers)
    results,            \* per job: local of run_analysis
    exc,                \* per job: text of the exception being handled
    sleeps,             \* per job: the delays slept so far, in order
    calls,              \* per job: number of kickoff calls so far
    failures,           \* per job: the texts of the exceptions kickoff raised, in order
    extracted,          \* per job: idx -> the value line 226 got from the extractor
    stage_log,          \* per job: the tasks the crew ran, in order, over all attempts
    todo,               \* ids of the submissions still to arrive
    service,            \* which range of behaviours the completion service has
    resp                \* status code of the last query answered

vars == <<analysis_results, pc, attempt, crew_result, results, exc, sleeps, calls,
          failures, extracted, stage_log, todo, service, resp>>
locals == <<attempt, crew_result, results, exc, sleeps, calls, failures, extracted, stage_log>>

\* a key the record does not hold yet
Absent == [t |-> "absent"]
Now == PyStr("isoformat")
Progress(text) == [text |-> text]
\* f"Rate limit hit, waiting {delay}s..."
WaitProgress(delay) == [text |-> "Rate limit hit, waiting", delay |-> delay]

\* api.py line 161
max_retries == 3

DelayFromOne(k) == 15 * (2 ^ (k - 1))

\* api.py line 174
Delay(k) == 15 * (2 ^ k)

\* api.py lines 209-215, indexed from 0 as in the code
task_result_mapping(idx) ==
    CASE idx = 0 -> "marketing_strengths"
      [] idx = 1 -> "tech_strengths"
      [] idx = 2 -> "org_hr_strengths"
      [] idx = 3 -> "competitive_strengths"
      [] OTHER -> "finance_strengths"

ResultNames == {task_result_mapping(i) : i \in 0..4}
IndexOf(name) == CHOOSE i \in 0..4 : task_result_mapping(i) = name

\* api.py lines 194-197
TasksOutput(cr) == IF cr.t = "CrewOutput" THEN cr.tasks_output ELSE <<>>

\* number of task outputs the loop of line 218 processes
Processed(tasks_output) == IF Len(tasks_output) < 5 THEN Len(tasks_output) ELSE 5

ValidatedNoFloor(strengths, idx) ==
    IF Truthy(strengths) THEN strengths ELSE get_fallback_strengths(idx)

\* api.py lines 229-235, for a value whose len() is defined
Validated3(strengths, idx) ==
    IF Truthy(strengths) /\ PyLen(strengths) >= 3 THEN strengths
    ELSE get_fallback_strengths(idx)

\* line 229 raises TypeError: the value is truthy and has no len()
LenRaises(strengths) == Truthy(strengths) /\ ~HasLen(strengths)

\* line 226 for every task output the loop of line 218 reaches:
\* idx -> the extractor's answer
Extracted(tasks_output) ==
    [idx \in 0..(Processed(tasks_output) - 1) |->
        extract_strengths_from_output(tasks_output[idx + 1], idx)]

\* indices at which line 229 raises
RaisingAt(ex) == {idx \in DOMAIN ex : LenRaises(ex[idx])}

\* a result field that takes its fallback from index 0
FieldAtFirstFallback(ex, idx) ==
    IF idx \in DOMAIN ex THEN Validated3(ex[idx], 0) ELSE PyList(<<>>)

\* the result field of index idx: lines 201-207 and 229-235
FieldAt(ex, idx) == IF idx \in DOMAIN ex THEN Validated3(ex[idx], idx) ELSE PyList(<<>>)

\* api.py lines 201-236 when nothing raises
Aggregate(ex) == PyDict([name \in ResultNames |-> FieldAt(ex, IndexOf(name))])

Raised(msg) == [raised |-> TRUE, msg |-> msg, results |-> PyNone]

\* api.py lines 218-236: the first index that raises ends the loop
Loop(ex, raising) ==
    IF raising # {} THEN Raised(LenErrorMsg(ex[Min(raising)]))
    ELSE [raised |-> FALSE, msg |-> <<>>, results |-> Aggregate(ex)]

PostProcessTasks(ex) == Loop(ex, RaisingAt(ex))

\* api.py lines 190-236: the exception raised, or the results dict
PostProcess(cr) ==
    IF ~Truthy(cr) THEN Raised(NoResultMsg) ELSE PostProcessTasks(Extracted(TasksOutput(cr)))

\* PostProcess of every answer of the service, computed once
Outcome == [r \in 0..Len(Answers) |-> PostProcess(CrewValue(r))]

\* no call of the extractor yet
NoCalls == [idx \in {} |-> PyNone]

\* the calls of line 226 that happen: the loop ends at the first index at which
\* line 229 raises
UpToRaise(ex, raising) ==
    [idx \in {i \in DOMAIN ex : \A k \in raising : i <= k} |-> ex[idx]]

\* api.py lines 190-226: idx -> what the extractor returned for task output idx
ExtractorCalls(cr) ==
    IF ~Truthy(cr) THEN NoCalls
    ELSE UpToRaise(Extracted(TasksOutput(cr)), RaisingAt(Extracted(TasksOutput(cr))))

\* ExtractorCalls of every answer of the service, computed once
Extractions == [r \in 0..Len(Answers) |-> ExtractorCalls(CrewValue(r))]

StagesResumed(j, upto) ==
    [i \in 1..(upto + 1 - (IF stage_log[j] = <<>> THEN 0 ELSE stage_log[j][Len(stage_log[j])])) |->
        i - 1 + (IF stage_log[j] = <<>> THEN 0 ELSE stage_log[j][Len(stage_log[j])])]

\* crew.py lines 141-150 and api.py line 180: every attempt builds a new crew,
\* whose sequential process runs the tasks 0, 1, ... in order; upto is the
\* last task it runs (-1: the crew's construction raised)
StagesRun(j, upto) == [i \in 1..(upto + 1) |-> i - 1]

\* api.py lines 271-277
NewRecord ==
    [status |-> "queued", submitted_at |-> Now, progress |-> Progress("Queued for processing"),
     result |-> PyNone, error |-> PyNone, completed_at |-> Absent]

Known(id) == id \in DOMAIN analysis_results

InitWith(ids, svc) ==
    /\ analysis_results = <<>>
    /\ pc = [j \in Jobs |-> "unsubmitted"]
    /\ attempt = [j \in Jobs |-> 0]
    /\ crew_result = [j \in Jobs |-> 0]
    /\ results = [j \in Jobs |-> PyNone]
    /\ exc = [j \in Jobs |-> <<>>]
    /\ sleeps = [j \in Jobs |-> <<>>]
    /\ calls = [j \in Jobs |-> 0]
    /\ failures = [j \in Jobs |-> <<>>]
    /\ extracted = [j \in Jobs |-> NoCalls]
    /\ stage_log = [j \in Jobs |-> <<>>]
    /\ todo = ids
    /\ service = svc
    /\ resp = 0

\* several submissions against a service with few behaviours
Init == InitWith(Jobs, "basic")
\* one submission against the whole range of behaviours
InitOne == InitWith({1}, "full")
\* one submission against a service that may fail at any task
InitStages == InitWith({1}, "staged")

\* a write that reaches the field of every record of the store
PutShared(j, field, value) ==
    analysis_results' =
        [b \in DOMAIN analysis_results |-> [analysis_results[b] EXCEPT ![field] = value]]

Put(j, field, value) ==
    analysis_results' = [analysis_results EXCEPT ![j] = [@ EXCEPT ![field] = value]]
Goto(j, line) == pc' = [pc EXCEPT ![j] = line]

(* ------------------------------ analyze -------------------------------- *)

\* a submission that schedules the task and stores no record
analyzeUnrecorded(j) ==
    /\ j \in todo
    /\ todo' = todo \ {j}
    /\ Goto(j, "L164")
    /\ UNCHANGED <<analysis_results, locals, service, resp>>

\* api.py lines 266-285: the record is stored, then the task is scheduled
analyze(j) ==
    /\ j \in todo
    /\ todo' = todo \ {j}
    /\ analysis_results' = (j :> NewRecord) @@ analysis_results
    /\ Goto(j, "L164")
    /\ UNCHANGED <<locals, service, resp>>

(* ---------------------------- run_analysis ----------------------------- *)

\* line 164
SetProcessing(j) ==
    /\ pc[j] = "L164"
    /\ Put(j, "status", "processing")
    /\ Goto(j, "L165")
    /\ UNCHANGED <<locals, todo, service, resp>>

\* lines 165-171: attempt 0 skips the wait of line 173
SetStarting(j) ==
    /\ pc[j] = "L165"
    /\ Put(j, "progress", Progress("Starting analysis..."))
    /\ attempt' = [attempt EXCEPT ![j] = 0]
    /\ Goto(j, "L179")
    /\ UNCHANGED <<crew_result, results, exc, sleeps, calls, failures, extracted, stage_log,
                   todo, service, resp>>

\* lines 173-175
SetWaiting(j) ==
    /\ pc[j] = "L175"
    /\ Put(j, "progress", WaitProgress(Delay(attempt[j])))
    /\ Goto(j, "L177")
    /\ UNCHANGED <<locals, todo, service, resp>>

\* line 177
Sleep(j) ==
    /\ pc[j] = "L177"
    /\ sleeps' = [sleeps EXCEPT ![j] = Append(@, Delay(attempt[j]))]
    /\ Goto(j, "L179")
    /\ UNCHANGED <<analysis_results, attempt, crew_result, results, exc, calls,
                   failures, extracted, stage_log, todo, service, resp>>

\* line 179
SetRunning(j) ==
    /\ pc[j] = "L179"
    /\ Put(j, "progress", Progress("Running agents (5 agents, ~1 min total)..."))
    /\ Goto(j, "L180")
    /\ UNCHANGED <<locals, todo, service, resp>>

\* lines 180-182: kickoff returns and the loop is left
KickoffReturns(j) ==
    /\ pc[j] = "L180"
    /\ \E value \in ServiceResults(service) : crew_result' = [crew_result EXCEPT ![j] = value]
    /\ calls' = [calls EXCEPT ![j] = @ + 1]
    /\ stage_log' = [stage_log EXCEPT ![j] = @ \o StagesRun(j, 4)]
    /\ Goto(j, "L190")
    /\ UNCHANGED <<analysis_results, attempt, results, exc, sleeps, failures, extracted,
                   todo, service, resp>>

\* lines 183-188 for the exception text error_msg: where control goes
AfterFailureAlwaysRetry(j, error_msg) ==
    IF attempt[j] < max_retries - 1
    THEN /\ attempt' = [attempt EXCEPT ![j] = @ + 1]
         /\ Goto(j, "L175")
         /\ UNCHANGED exc
    ELSE /\ exc' = [exc EXCEPT ![j] = error_msg]
         /\ Goto(j, "L252")
         /\ UNCHANGED attempt

AfterFailureUnbounded(j, error_msg) ==
    IF IsRateLimit(error_msg) /\ attempt[j] < max_retries
    THEN /\ attempt' = [attempt EXCEPT ![j] = @ + 1]
         /\ Goto(j, "L175")
         /\ UNCHANGED exc
    ELSE /\ exc' = [exc EXCEPT ![j] = error_msg]
         /\ Goto(j, "L252")
         /\ UNCHANGED attempt

AfterFailure(j, error_msg) ==
    IF IsRateLimit(error_msg) /\ attempt[j] < max_retries - 1
    THEN /\ attempt' = [attempt EXCEPT ![j] = @ + 1]
         /\ Goto(j, "L175")
         /\ UNCHANGED exc
    ELSE /\ exc' = [exc EXCEPT ![j] = error_msg]
         /\ Goto(j, "L252")
         /\ UNCHANGED attempt

\* lines 180, 183-188: kickoff (or the crew's construction) raises
KickoffRaises(j) ==
    /\ pc[j] = "L180"
    /\ \E error_msg \in ServiceErrors(service) :
          /\ AfterFailure(j, error_msg)
          /\ failures' = [failures EXCEPT ![j] = Append(@, error_msg)]
    /\ \E stage \in FailingStages(service) :
          stage_log' = [stage_log EXCEPT ![j] = @ \o StagesRun(j, stage)]
    /\ calls' = [calls EXCEPT ![j] = @ + 1]
    /\ UNCHANGED <<analysis_results, crew_result, results, sleeps, extracted,
                   todo, service, resp>>

ContinueUncaught(j, r) ==
    IF r.raised
    THEN /\ exc' = [exc EXCEPT ![j] = r.msg]
         /\ Goto(j, "returned")
         /\ UNCHANGED results
    ELSE /\ results' = [results EXCEPT ![j] = r.results]
         /\ Goto(j, "L238")
         /\ UNCHANGED exc

\* lines 190-236 with outcome r: to the handler, or on to line 238
Continue(j, r) ==
    IF r.raised
    THEN /\ exc' = [exc EXCEPT ![j] = r.msg]
         /\ Goto(j, "L252")
         /\ UNCHANGED results
    ELSE /\ results' = [results EXCEPT ![j] = r.results]
         /\ Goto(j, "L238")
         /\ UNCHANGED exc

\* lines 190-236: local work on the crew result
Extract(j) ==
    /\ pc[j] = "L190"
    /\ Continue(j, Outcome[crew_result[j]])
    /\ extracted' = [extracted EXCEPT ![j] = Extractions[crew_result[j]]]
    /\ UNCHANGED <<analysis_results, attempt, crew_result, sleeps, calls, failures,
                   stage_log, todo, service, resp>>

\* line 238
SetCompleted(j) ==
    /\ pc[j] = "L238"
    /\ Put(j, "status", "completed")
    /\ Goto(j, "L239")
    /\ UNCHANGED <<locals, todo, service, resp>>

SetResultThenRaise(j) ==
    /\ pc[j] = "L239"
    /\ Put(j, "result", results[j])
    /\ exc' = [exc EXCEPT ![j] = <<"b","u","g">>]
    /\ Goto(j, "L252")
    /\ UNCHANGED <<attempt, crew_result, results, sleeps, calls, failures,
                   extracted, stage_log, todo, service, resp>>

\* line 239
SetResult(j) ==
    /\ pc[j] = "L239"
    /\ Put(j, "result", results[j])
    /\ Goto(j, "L240")
    /\ UNCHANGED <<locals, todo, service, resp>>

SetCompletedAtThenRaise(j) ==
    /\ pc[j] = "L240"
    /\ Put(j, "completed_at", Now)
    /\ exc' = [exc EXCEPT ![j] = <<"b","u","g">>]
    /\ Goto(j, "L252")
    /\ UNCHANGED <<attempt, crew_result, results, sleeps, calls, failures,
                   extracted, stage_log, todo, service, resp>>

\* line 240
SetCompletedAt(j) ==
    /\ pc[j] = "L240"
    /\ Put(j, "completed_at", Now)
    /\ Goto(j, "L241")
    /\ UNCHANGED <<locals, todo, service, resp>>

\* lines 241-245
SetComplete(j) ==
    /\ pc[j] = "L241"
    /\ Put(j, "progress", Progress("Analysis complete!"))
    /\ Goto(j, "returned")
    /\ UNCHANGED <<locals, todo, service, resp>>

\* lines 247-252
SetFailed(j) ==
    /\ pc[j] = "L252"
    /\ Put(j, "status", "failed")
    /\ Goto(j, "L253")
    /\ UNCHANGED <<locals, todo, service, resp>>

\* line 253
SetError(j) ==
    /\ pc[j] = "L253"
    /\ Put(j, "error", [t |-> "str", chars |-> exc[j]])
    /\ Goto(j, "L254")
    /\ UNCHANGED <<locals, todo, service, resp>>

\* line 254
SetFailedProgress(j) ==
    /\ pc[j] = "L254"
    /\ Put(j, "progress", Progress("Analysis failed"))
    /\ Goto(j, "returned")
    /\ UNCHANGED <<locals, todo, service, resp>>

\* one step of the background task of job j
run_analysis(j) ==
    \/ SetProcessing(j) \/ SetStarting(j) \/ SetWaiting(j) \/ Sleep(j) \/ SetRunning(j)
    \/ KickoffReturns(j) \/ KickoffRaises(j) \/ Extract(j)
    \/ SetCompleted(j) \/ SetResult(j) \/ SetCompletedAt(j) \/ SetComplete(j)
    \/ SetFailed(j) \/ SetError(j) \/ SetFailedProgress(j)

(* ------------------------------- queries ------------------------------- *)

NotFound == [code |-> 404, detail |-> "Analysis ID not found"]

\* api.py lines 288-294: the record as it stands
get_status(id) ==
    IF ~Known(id) THEN NotFound ELSE [code |-> 200, body |-> analysis_results[id]]

\* api.py lines 297-316; reading a key the record lacks is a KeyError, which
\* the framework answers with 500 Internal Server Error
ResultsOf(id, result) ==
    IF result.status = "failed"
    THEN [code |-> 500, detail |-> "Analysis failed: ", error |-> result.error]
    ELSE IF result.status # "completed"
    THEN [code |-> 400, detail |-> "Analysis not completed yet. Status: ",
          status |-> result.status]
    ELSE IF result.completed_at = Absent
    THEN [code |-> 500, detail |-> "Internal Server Error", raised |-> "KeyError"]
    ELSE [code |-> 200, analysis_id |-> id, status |-> "completed",
          completed_at |-> result.completed_at, results |-> result.result]

get_results(id) == IF ~Known(id) THEN NotFound ELSE ResultsOf(id, analysis_results[id])

GetStatus(id) ==
    /\ resp' = get_status(id).code
    /\ UNCHANGED <<analysis_results, pc, locals, todo, service>>

GetResults(id) ==
    /\ resp' = get_results(id).code
    /\ UNCHANGED <<analysis_results, pc, locals, todo, service>>

(* --------------------------- specifications ---------------------------- *)

Next ==
    \/ \E j \in Jobs : analyze(j)
    \/ \E j \in Jobs : run_analysis(j)
    \/ \E id \in QueryIds : GetStatus(id)
    \/ \E id \in QueryIds : GetResults(id)

\* the jobs alone: the query handlers write nothing a job reads
NextJobs ==
    \/ \E j \in Jobs : analyze(j)
    \/ \E j \in Jobs : run_analysis(j)

Spec == Init /\ [][Next]_vars
SpecOne == InitOne /\ [][Next]_vars
SpecStages == InitStages /\ [][Next]_vars
JobSpec == Init /\ [][NextJobs]_vars
\* the thread pool keeps running every started background task until it
\* returns
LiveSpec == Init /\ [][NextJobs]_vars /\ \A j \in Jobs : WF_vars(run_analysis(j))

(* ------------------------------- claims -------------------------------- *)

StatusOf(id) == get_status(id).body.status

\* the enum order Queued < Processing < {Completed, Failed}
Rank(status) ==
    CASE status = "queued" -> 0
      [] status = "processing" -> 1
      [] OTHER -> 2

\* one move along Queued -> Processing -> (Completed or Failed), or none
StatusStep(old, new) ==
    \/ new = old
    \/ old = "queued" /\ new = "processing"
    \/ old = "processing" /\ new \in {"completed", "failed"}

\* C1: the status a status query reports for a job starts at Queued and, from
\* one query to any later one, either stays or moves one step along
\* Queued -> Processing -> (Completed or Failed); it never moves backwards and
\* never passes from one terminal status to the other.
C1_StatusMonotonic ==
    [][\A id \in Jobs :
          /\ ~Known(id) /\ Known(id)' => StatusOf(id)' = "queued"
          /\ Known(id) =>
                /\ Known(id)'
                /\ StatusStep(StatusOf(id), StatusOf(id)')
                /\ Rank(StatusOf(id)') >= Rank(StatusOf(id))]_vars

\* one job has gone all the way to Completed and another to Failed
C1_Witness ==
    \E a, b \in Jobs :
        /\ Known(a) /\ pc[a] = "returned" /\ StatusOf(a) = "completed"
        /\ Known(b) /\ pc[b] = "returned" /\ StatusOf(b) = "failed"

\* C2: a status query answered at any point of a job's run never shows a
\* half-written record: not status Completed with result null or completed_at
\* absent, and not status Failed with error null.
C2_NoHalfWrittenRecord ==
    \A id \in QueryIds :
        get_status(id).code = 200 =>
            /\ get_status(id).body.status = "completed" =>
                  /\ get_status(id).body.result # PyNone
                  /\ get_status(id).body.completed_at # Absent
            /\ get_status(id).body.status = "failed" =>
                  get_status(id).body.error # PyNone

\* C3: result and error are never both non-null; each is written at most
\* once, from null, result only while the job is Completed and error only
\* while it is Failed; a new record holds neither.
C3_ResultErrorExclusive ==
    /\ [](\A id \in Jobs : Known(id) =>
            analysis_results[id].result = PyNone \/ analysis_results[id].error = PyNone)
    /\ [][\A id \in Jobs :
            /\ ~Known(id) /\ Known(id)' =>
                  /\ analysis_results'[id].result = PyNone
                  /\ analysis_results'[id].error = PyNone
            /\ Known(id) /\ analysis_results'[id].result # analysis_results[id].result =>
                  /\ analysis_results[id].result = PyNone
                  /\ analysis_results'[id].result # PyNone
                  /\ analysis_results[id].status = "completed"
                  /\ analysis_results'[id].status = "completed"
            /\ Known(id) /\ analysis_results'[id].error # analysis_results[id].error =>
                  /\ analysis_results[id].error = PyNone
                  /\ analysis_results'[id].error # PyNone
                  /\ analysis_results[id].status = "failed"
                  /\ analysis_results'[id].status = "failed"]_vars

\* one job holds a result and no error, another an error and no result
C3_Witness ==
    \E a, b \in Jobs :
        /\ Known(a) /\ analysis_results[a].result # PyNone /\ analysis_results[a].error = PyNone
        /\ Known(b) /\ analysis_results[b].error # PyNone /\ analysis_results[b].result = PyNone

FiveNames ==
    {"marketing_strengths", "tech_strengths", "org_hr_strengths",
     "competitive_strengths", "finance_strengths"}

\* number of stage outputs the completion call of job j returned
Returned(j) == Len(TasksOutput(CrewValue(crew_result[j])))

HasFiveNames(result) == result.t = "dict" /\ DOMAIN result.m = FiveNames

RateLimited(text) ==
    \/ \E i \in 1..Len(text) :
          /\ i + 9 <= Len(text)
          /\ [k \in 1..10 |-> LowerChar(text[i + k - 1])]
                = <<"r","a","t","e","_","l","i","m","i","t">>
    \/ \E i \in 1..Len(text) :
          i + 2 <= Len(text) /\ <<text[i], text[i + 1], text[i + 2]>> = <<"4","2","9">>

Last(seq) == seq[Len(seq)]

\* C5: a job whose completion call returned ends Completed and is never
\* Failed, whatever the value returned; a Failed job's completion call raised
\* a failure that is not rate-limited, or three rate-limited ones.
C5_ReturnedCallCompletes ==
    \A j \in Jobs :
        Known(j) =>
            /\ crew_result[j] # 0 => analysis_results[j].status # "failed"
            /\ crew_result[j] # 0 /\ pc[j] = "returned" =>
                  analysis_results[j].status = "completed"
            /\ analysis_results[j].status = "failed" =>
                  /\ failures[j] # <<>>
                  /\ ~RateLimited(Last(failures[j])) \/ Len(failures[j]) = 3

\* the first two attempts of job j failed with a rate-limit failure and the
\* third returned
TwoRateLimitsThenSuccess(j) ==
    /\ Len(failures[j]) = 2
    /\ RateLimited(failures[j][1]) /\ RateLimited(failures[j][2])
    /\ calls[j] = 3 /\ crew_result[j] # 0

\* after the retry loop: extraction, or one of the two ways out
PastRetryLoop(j) ==
    pc[j] \in {"L190", "L238", "L239", "L240", "L241", "L252", "L253", "L254", "returned"}

\* C6 (amended): when the first two attempts fail with a rate-limit failure
\* and the third succeeds, the retry loop has slept exactly twice, 30 time
\* units before attempt 2 and 60 before attempt 3, in that order, and goes
\* on with the value the third attempt returned.
C6_BackoffThirtySixty ==
    \A j \in Jobs :
        TwoRateLimitsThenSuccess(j) =>
            /\ sleeps[j] = <<30, 60>>
            /\ PastRetryLoop(j)
            /\ pc[j] \in {"L238", "L239", "L240", "L241"} =>
                  results[j] = Outcome[crew_result[j]].results

\* a job completed with the value its third attempt returned
C6_Witness ==
    \E j \in Jobs :
        /\ TwoRateLimitsThenSuccess(j)
        /\ pc[j] = "returned"
        /\ analysis_results[j].status = "completed"
        /\ analysis_results[j].result = Outcome[crew_result[j]].results

\* C6 as stated: the two sleeps are of 15 and 30 time units.
C6_BackoffFifteenThirty ==
    \A j \in Jobs :
        TwoRateLimitsThenSuccess(j) => sleeps[j] = <<15, 30>> /\ PastRetryLoop(j)

\* all three attempts of job j failed with a rate-limit failure
ThreeRateLimits(j) ==
    /\ Len(failures[j]) = 3
    /\ \A i \in 1..3 : RateLimited(failures[j][i])

\* the handler of the failure: lines 247-254, and after
Failing(j) == pc[j] \in {"L252", "L253", "L254", "returned"}

ErrorText(chars) == [t |-> "str", chars |-> chars]

\* C7: the completion call is attempted at most 3 times; after three
\* rate-limit failures there is no further attempt and no further sleep (two
\* sleeps in all), and the job goes to Failed with the text of the third
\* failure as its error.
C7_AtMostThreeAttempts ==
    \A j \in Jobs :
        /\ calls[j] <= 3
        /\ Len(failures[j]) <= 3
        /\ ThreeRateLimits(j) =>
              /\ calls[j] = 3 /\ crew_result[j] = 0
              /\ Len(sleeps[j]) = 2
              /\ Failing(j)
              /\ exc[j] = failures[j][3]
              /\ analysis_results[j].status \in {"processing", "failed"}
              /\ analysis_results[j].error \in {PyNone, ErrorText(failures[j][3])}
              /\ pc[j] \in {"L254", "returned"} =>
                    /\ analysis_results[j].status = "failed"
                    /\ analysis_results[j].error = ErrorText(failures[j][3])

\* a job Failed after three rate-limit failures whose texts differ
C7_Witness ==
    \E j \in Jobs :
        /\ ThreeRateLimits(j)
        /\ failures[j][3] # failures[j][2]
        /\ pc[j] = "returned"
        /\ analysis_results[j].status = "failed"
        /\ analysis_results[j].error = ErrorText(failures[j][3])

\* C8: after a failure that is not rate-limited there is no further attempt
\* and no sleep, however many attempts remain, no extraction runs, and the
\* job goes to Failed with that failure's text as its error.
C8_OtherFailureAborts ==
    \A j \in Jobs :
        failures[j] # <<>> /\ ~RateLimited(Last(failures[j])) =>
            /\ calls[j] = Len(failures[j])
            /\ Len(sleeps[j]) = Len(failures[j]) - 1
            /\ crew_result[j] = 0 /\ results[j] = PyNone
            /\ Failing(j)
            /\ exc[j] = Last(failures[j])
            /\ analysis_results[j].status \in {"processing", "failed"}
            /\ analysis_results[j].result = PyNone
            /\ analysis_results[j].error \in {PyNone, ErrorText(Last(failures[j]))}
            /\ pc[j] \in {"L254", "returned"} =>
                  /\ analysis_results[j].status = "failed"
                  /\ analysis_results[j].error = ErrorText(Last(failures[j]))

\* a job Failed by a failure other than a rate limit at its first attempt,
\* with two attempts left
C8_Witness ==
    \E j \in Jobs :
        /\ Len(failures[j]) = 1 /\ ~RateLimited(failures[j][1])
        /\ pc[j] = "returned"
        /\ analysis_results[j].status = "failed"
        /\ analysis_results[j].error = ErrorText(failures[j][1])

\* C9: every job created eventually has a terminal status, Completed or
\* Failed, when its background task keeps being scheduled.
C9_EveryJobTerminates ==
    \A j \in Jobs :
        Known(j) ~> (Known(j) /\ analysis_results[j].status \in {"completed", "failed"})

\* every job has been created and has returned with a terminal status
C9_Witness ==
    \A j \in Jobs :
        /\ Known(j) /\ pc[j] = "returned"
        /\ analysis_results[j].status \in {"completed", "failed"}

\* C10: a results query answers by the job's state at the time of the query:
\* 404 for an unknown id, 400 naming the status for Queued and Processing,
\* 500 with the recorded error text for Failed, the result and the completion
\* timestamp for Completed; nothing else.
C10_ResultsQueryOutcomes ==
    \A id \in QueryIds :
        IF ~Known(id) THEN get_results(id).code = 404
        ELSE CASE analysis_results[id].status \in {"queued", "processing"} ->
                     /\ get_results(id).code = 400
                     /\ get_results(id).status = analysis_results[id].status
               [] analysis_results[id].status = "failed" ->
                     /\ get_results(id).code = 500
                     /\ get_results(id).detail = "Analysis failed: "
                     /\ get_results(id).error # PyNone
                     /\ get_results(id).error = ErrorText(exc[id])
               [] OTHER ->
                     /\ get_results(id).code = 200
                     /\ get_results(id).results # PyNone
                     /\ get_results(id).results = results[id]
                     /\ get_results(id).completed_at = Now

\* the task output the extractor was given at index idx of job j
RawOf(j, idx) == TasksOutput(CrewValue(crew_result[j]))[idx + 1]

\* the value is a list of 3 to 5 items
ThreeToFive(v) == v.t = "list" /\ Len(v.items) >= 3 /\ Len(v.items) <= 5

\* C11: whatever the raw value, the extractor returns a list of at least 3
\* and at most 5 items, and the fallback list of its index when no strategy
\* returns.
C11_ExtractorThreeToFive ==
    \A j \in Jobs :
        \A idx \in DOMAIN extracted[j] :
            /\ ThreeToFive(extracted[j][idx])
            /\ Strategies(RawOf(j, idx)).r # "hit" =>
                  extracted[j][idx] = get_fallback_strengths(idx)

\* what strategies 5 and 6 give for the text, tried in this order
LaterStrategies(output_str) == OrElse(Strategy5(output_str), Strategy6(output_str))

\* strategies 1 to 3 do not apply and strategy 4 raises on the rendered text
Strategy4Raises(raw) ==
    /\ Strategy1(raw).r = "miss" /\ Strategy2(raw).r = "miss" /\ Strategy3(raw).r = "miss"
    /\ Strategy4(Str(raw)).r = "raise"

\* C12: when strategy 4 raises (its pattern matches and parsing the match
\* fails), strategies 5 and 6 are still tried: the extractor returns what
\* they find, and the fallback only when they find nothing.
C12_RaisingStrategyIsSkipped ==
    \A j \in Jobs :
        \A idx \in DOMAIN extracted[j] :
            Strategy4Raises(RawOf(j, idx)) =>
                extracted[j][idx] =
                    (IF LaterStrategies(Str(RawOf(j, idx))).r = "hit"
                     THEN LaterStrategies(Str(RawOf(j, idx))).val
                     ELSE get_fallback_strengths(idx))

\* the strengths fields a raw stage result exposes: as a typed
\* AgentStrengthOutput, as its pydantic attribute (typed or a mapping), or as
\* a mapping with the key strengths directly or under the key pydantic
ExposedFields(raw) ==
    (IF raw.t = "AgentStrengthOutput" THEN {raw.strengths} ELSE {})
    \cup (IF raw.t = "TaskOutput" /\ raw.pydantic.t = "AgentStrengthOutput"
          THEN {raw.pydantic.strengths} ELSE {})
    \cup (IF raw.t = "TaskOutput" /\ HasKey(raw.pydantic, "strengths")
          THEN {raw.pydantic.m["strengths"]} ELSE {})
    \cup (IF HasKey(raw, "strengths") THEN {raw.m["strengths"]} ELSE {})
    \cup (IF HasKey(raw, "pydantic") /\ HasKey(raw.m["pydantic"], "strengths")
          THEN {raw.m["pydantic"].m["strengths"]} ELSE {})

FourItems(v) == v.t = "list" /\ Len(v.items) = 4

\* C13: for a raw stage result that exposes a strengths field of 4 items,
\* the extractor returns exactly those 4 items in the same order.
C13_ExposedFourReturned ==
    \A j \in Jobs :
        \A idx \in DOMAIN extracted[j] :
            \A v \in ExposedFields(RawOf(j, idx)) :
                FourItems(v) /\ ExposedFields(RawOf(j, idx)) = {v} =>
                    extracted[j][idx] = v

\* a mapping that holds 4 items under the key pydantic went through the
\* extractor, and so did a typed output of 4 items
C13_Witness ==
    \E j \in Jobs :
        /\ pc[j] = "L238"
        /\ \E idx \in DOMAIN extracted[j] :
              /\ RawOf(j, idx) = PyDict([pydantic |-> PyDict([strengths |-> StrList(4)])])
              /\ extracted[j][idx] = StrList(4)
        /\ \E idx \in DOMAIN extracted[j] :
              /\ RawOf(j, idx).t = "AgentStrengthOutput"
              /\ FourItems(extracted[j][idx])

\* the text of a raw stage result that carries no value, only text
TextOf(raw) ==
    IF raw.t = "text" THEN raw.toks
    ELSE IF raw.t = "TaskOutput" /\ raw.pydantic = PyNone THEN raw.raw.toks
    ELSE <<>>

\* C14: for a raw text that holds a JSON object with a strengths array of 3
\* items between other text, the extractor returns exactly those 3 items,
\* whatever their length.
C14_EmbeddedObjectExtracted ==
    \A j \in Jobs :
        \A idx \in DOMAIN extracted[j] :
            /\ TextOf(RawOf(j, idx)) = Embedded(JsonArray(3)) =>
                  extracted[j][idx] = StrList(3)
            /\ TextOf(RawOf(j, idx)) = Embedded(ShortArray(3)) =>
                  extracted[j][idx] = ShortList(3)

\* the raw stage result is text and nothing else
IsTextOutput(raw) == raw.t = "text" \/ (raw.t = "TaskOutput" /\ raw.pydantic = PyNone)

\* no two consecutive quote characters of the text have 15 or more
\* characters between them
NoQuotedRun(toks) ==
    \A a \in 1..Len(toks) :
        toks[a].k = "q" =>
            /\ Len(toks[a].s) < 15
            /\ NextQ(toks, a) # 0 => SumLen(SubSeq(toks, a + 1, NextQ(toks, a) - 1)) < 15

\* no part of the text is a JSON object or array
NoParseableJson(toks) ==
    \A a \in 1..Len(toks) :
        toks[a] \in {P("{"), P("[")} =>
            \A b \in a..Len(toks) : ~JsonLoads(SubSeq(toks, a, b)).ok

\* the texts of the upstream universe with neither
ProseTexts ==
    {RawTexts[i] : i \in {x \in 1..Len(RawTexts) :
                             NoQuotedRun(RawTexts[x]) /\ NoParseableJson(RawTexts[x])}}

\* indices the lookup is asked for, and some it is not
LookupRange == (0 - 2)..(MaxTasks + 1)

\* the lookup gives, for every index, a list of exactly 3 strings; indices
\* 0..4 have each their own list and every other index the one generic list
FixedLookup ==
    /\ \A i \in LookupRange :
          /\ get_fallback_strengths(i).t = "list"
          /\ Len(get_fallback_strengths(i).items) = 3
          /\ AllStr(get_fallback_strengths(i))
    /\ \A a \in 0..4 : \A b \in LookupRange :
          a # b => get_fallback_strengths(a) # get_fallback_strengths(b)
    /\ \A a \in LookupRange \ (0..4) :
          get_fallback_strengths(a) = get_fallback_strengths(0 - 1)

\* C15: the fallback lookup gives, for every index, a list of exactly 3
\* strings; indices 0..4 have each their own list and every other index the
\* one generic list. For a raw text with no parseable JSON and no quoted run
\* of 15 or more characters, the extractor at index i returns exactly the
\* fallback list of index i.
C15_FallbackLookup ==
    /\ FixedLookup
    /\ \A j \in Jobs :
          \A idx \in DOMAIN extracted[j] :
              IsTextOutput(RawOf(j, idx)) /\ TextOf(RawOf(j, idx)) \in ProseTexts =>
                  extracted[j][idx] = get_fallback_strengths(idx)

\* a job completed after the extractor was given plain prose at an index
\* other than 0 and answered with the list of that index
C15_Witness ==
    \E j \in Jobs :
        /\ pc[j] = "L238"
        /\ \E idx \in DOMAIN extracted[j] :
              /\ idx > 0
              /\ IsTextOutput(RawOf(j, idx))
              /\ TextOf(RawOf(j, idx)) = FixedTexts[1]
              /\ FixedTexts[1] \in ProseTexts
              /\ Broken(0) \in ProseTexts
              /\ extracted[j][idx] = get_fallback_strengths(idx)

\* C16: once a submission has returned an id, a status query finds the
\* record (never NotFound); until the job's background task takes its first
\* step the query reports Queued with result and error null; the record is
\* stored before the background task can take a step.
C16_SubmittedIsQueued ==
    \A j \in Jobs :
        /\ j \notin todo => get_status(j).code = 200
        /\ pc[j] # "unsubmitted" => Known(j)
        /\ pc[j] = "L164" =>
              /\ get_status(j).body.status = "queued"
              /\ get_status(j).body.result = PyNone
              /\ get_status(j).body.error = PyNone

\* a status query was answered 200 while the only submitted job had not
\* taken a step
C16_Witness ==
    /\ \E j \in Jobs :
          /\ pc[j] = "L164"
          /\ StatusOf(j) = "queued"
          /\ \A k \in Jobs \ {j} : pc[k] = "unsubmitted"
    /\ resp = 200

\* number of invocations of stage s in a log
Invocations(log, s) == Cardinality({p \in 1..Len(log) : log[p] = s})

\* the invocation at position p succeeded: the next stage follows it
Succeeded(log, p) == p < Len(log) /\ log[p + 1] = log[p] + 1

Field(j, idx) == results[j].m[task_result_mapping(idx)]

\* C18: for every index that has a raw output, the result field of that
\* index is exactly what the extractor returned for that output when that is
\* a list of at least 3 items, and exactly the fallback list of the same
\* index when it is a shorter list; in every case it is one of the two, never
\* a mix and never the list of another index. The result stored in the
\* record is that dict.
C18_FieldIsExtractedOrFallback ==
    \A j \in Jobs :
        results[j] # PyNone =>
            /\ \A idx \in DOMAIN extracted[j] :
                  /\ Field(j, idx) \in {extracted[j][idx], get_fallback_strengths(idx)}
                  /\ extracted[j][idx].t = "list" =>
                        Field(j, idx) = (IF Len(extracted[j][idx].items) >= 3
                                         THEN extracted[j][idx]
                                         ELSE get_fallback_strengths(idx))
            /\ DOMAIN extracted[j] = {idx \in 0..4 : idx < Returned(j)}
            /\ Known(j) /\ analysis_results[j].result # PyNone =>
                  analysis_results[j].result = results[j]

\* a stored result in which the field of one index is the extracted list and
\* the field of a later index is the fallback list of that index, put in
\* place of a list of fewer than 3 items
C18_Witness ==
    \E j \in Jobs :
        /\ Known(j) /\ analysis_results[j].result # PyNone
        /\ \E a, b \in DOMAIN extracted[j] :
              /\ a < b
              /\ extracted[j][a].t = "list" /\ Len(extracted[j][a].items) >= 3
              /\ analysis_results[j].result.m[task_result_mapping(a)] = extracted[j][a]
              /\ extracted[j][b].t = "list" /\ Len(extracted[j][b].items) \in {1, 2}
              /\ analysis_results[j].result.m[task_result_mapping(b)] = get_fallback_strengths(b)

\* the completion call of job j has returned a crew result with task outputs
HasOutputs(j) == crew_result[j] # 0 /\ CrewValue(crew_result[j]).t = "CrewOutput"

\* C19: when the completion call returns n raw stage outputs and n < 5, the
\* job still ends Completed, the fields of indices n..4 are empty lists and
\* the fields below n are filled; when n > 5, the outputs of index 5 and
\* above never reach the extractor.
C19_FewerOutputsStillComplete ==
    \A j \in Jobs :
        HasOutputs(j) =>
            /\ Returned(j) < 5 =>
                  /\ exc[j] = <<>>
                  /\ pc[j] = "returned" => StatusOf(j) = "completed"
                  /\ results[j] # PyNone =>
                        \A idx \in 0..4 :
                            IF idx < Returned(j)
                            THEN Field(j, idx) # PyList(<<>>)
                            ELSE Field(j, idx) = PyList(<<>>)
            /\ Returned(j) > 5 => DOMAIN extracted[j] \subseteq 0..4

\* what the background task of job b holds
LocalsOf(b) ==
    <<attempt[b], crew_result[b], results[b], exc[b], sleeps[b], calls[b], failures[b],
      extracted[b], stage_log[b]>>

\* C20: with several jobs running, a step of the submission or of the
\* background task of job a changes the record of job a only: the record and
\* the locals of every other job stay as they are; no record is ever removed
\* from the store; a record changes only in a step of its own job.
C20_OnlyOwnRecordWritten ==
    [][/\ DOMAIN analysis_results \subseteq DOMAIN analysis_results'
       /\ \A a \in Jobs :
             pc'[a] # pc[a] =>
                 \A b \in Jobs \ {a} :
                     /\ pc'[b] = pc[b]
                     /\ LocalsOf(b)' = LocalsOf(b)
                     /\ Known(b) => analysis_results'[b] = analysis_results[b]
       /\ \A b \in Jobs :
             Known(b) /\ analysis_results'[b] # analysis_results[b] => pc'[b] # pc[b]]_vars

\* one job has run to Completed or Failed while the record of the other, which
\* was submitted too, is still as it was inserted
C20_Witness ==
    \E a, b \in Jobs :
        /\ a # b
        /\ pc[a] = "returned" /\ StatusOf(a) \in {"completed", "failed"}
        /\ pc[b] = "L164" /\ analysis_results[b] = NewRecord
====
